---- MODULE Spec2Model ----
(***************************************************************************)
(* Habit tracker: the two tables (habits, habit_completions), the write    *)
(* handlers (markHabitComplete, deleteHabit, updateHabit) and the two      *)
(* progress calculations (getHabitProgress, getHabitsWithProgress).        *)
(*                                                                         *)
(* Time.  A Date is an integer number of hours since the model epoch       *)
(* 2023-01-01T00:00Z (a Sunday); only whole-hour instants are modelled.    *)
(* The server's zone is a fixed UTC offset tz (hours), chosen at start-up; *)
(* daylight-saving changes are not modelled.  The Date methods the         *)
(* handlers call are modelled by what they do: toISOString() reads the     *)
(* UTC calendar, while getDay(), getFullYear(), setHours(), setDate(),     *)
(* toDateString() and new Date(y, m, d) read or write the local calendar.  *)
(***************************************************************************)
EXTENDS Integers, Sequences, FiniteSets, Bags, TLC

VARIABLES
    habits,             \* habitsTable: id -> row
    completions,        \* habitCompletionsTable: set of rows
    nextHabitId,        \* serial of habits.id
    nextCompletionId,   \* serial of habit_completions.id
    now,                \* the server clock, what new Date() returns
    tz,                 \* the server's UTC offset in hours
    response,           \* outcome of the last operation
    calls,              \* the bag of markHabitComplete calls in flight
    clientHabits        \* the client's habit list (App.tsx useState)

vars == <<habits, completions, nextHabitId, nextCompletionId, now, tz, response,
          calls, clientHabits>>

\* A nullable value: Null, or Some(x).
Null == <<>>
Some(x) == <<x>>

\* ------------------------------------------------------------------ Date

HoursPerDay == 24
DaysPerWeek == 7

\* The instant numbered 0: 2023-01-01T00:00Z, getUTCDay() = 0 (Sunday).
Epoch == [year |-> 2023, weekday |-> 0]

\* Math.floor(a / b) and Math.ceil(a / b) for b > 0.
Floor(a, b) == IF a >= 0 THEN a \div b ELSE -((-a + b - 1) \div b)
Ceil(a, b) == -Floor(-a, b)

IsLeapYear(y) == (y % 4 = 0 /\ y % 100 # 0) \/ y % 400 = 0
DaysInYear(y) == IF IsLeapYear(y) THEN 366 ELSE 365

\* Index of the local calendar day of instant t (days since the epoch day).
LocalDay(t) == Floor(t + tz, HoursPerDay)

\* date.toISOString().split('T')[0]: the UTC calendar day of t.
toISODate(t) == Floor(t, HoursPerDay)

\* date.toDateString(): the local calendar day of t.
toDateString(t) == LocalDay(t)

\* date.getDay(): the local weekday, 0 = Sunday.
getDay(t) == (LocalDay(t) + Epoch.weekday) % DaysPerWeek

\* date.setHours(0, 0, 0, 0), and new Date(y, m, d) of t's local fields:
\* local midnight of t's local day.
startOfDay(t) == LocalDay(t) * HoursPerDay - tz

\* date.setDate(date.getDate() + k): same local time of day, k days later.
addDays(t, k) == t + k * HoursPerDay

RECURSIVE YearOfDay(_, _)
YearOfDay(y, d) ==
    IF d < DaysInYear(y) THEN y ELSE YearOfDay(y + 1, d - DaysInYear(y))

\* date.getFullYear()
getFullYear(t) == YearOfDay(Epoch.year, LocalDay(t))

RECURSIVE FirstDayOfYear(_)
FirstDayOfYear(y) ==
    IF y <= Epoch.year THEN 0 ELSE FirstDayOfYear(y - 1) + DaysInYear(y - 1)

\* new Date(date.getFullYear(), 0, 1): local midnight of 1 January.
startOfYearOf(t) == FirstDayOfYear(getFullYear(t)) * HoursPerDay - tz

getWeekNumber(date) ==
    LET startOfYear == startOfYearOf(date)
        dayOfYear == Floor(date - startOfYear, HoursPerDay)
    IN Ceil(dayOfYear + getDay(startOfYear) + 1, DaysPerWeek)

\* ------------------------------------------------------------ sequences

Max(a, b) == IF a >= b THEN a ELSE b

SetMax(S) == CHOOSE x \in S : \A y \in S : y <= x
SetMin(S) == CHOOSE x \in S : \A y \in S : x <= y

\* [...new Set(xs)].sort((a, b) => a - b)
RECURSIVE SortedAsc(_)
SortedAsc(S) ==
    IF S = {} THEN <<>> ELSE <<SetMin(S)>> \o SortedAsc(S \ {SetMin(S)})

\* [...new Set(xs)].sort((a, b) => b - a)
RECURSIVE SortedDesc(_)
SortedDesc(S) ==
    IF S = {} THEN <<>> ELSE <<SetMax(S)>> \o SortedDesc(S \ {SetMax(S)})

\* [...rows].reverse()
Reverse(s) == [i \in 1..Len(s) |-> s[Len(s) + 1 - i]]

\* Stable insertion of row r into rows sorted by completed_date ascending.
RECURSIVE InsertByDate(_, _)
InsertByDate(r, s) ==
    IF s = <<>> THEN <<r>>
    ELSE IF s[Len(s)].completed_date <= r.completed_date THEN Append(s, r)
    ELSE Append(InsertByDate(r, SubSeq(s, 1, Len(s) - 1)), s[Len(s)])

\* [...rows].sort((a, b) => a.completed_date - b.completed_date), stable.
RECURSIVE SortByDateAsc(_)
SortByDateAsc(s) ==
    IF s = <<>> THEN <<>>
    ELSE InsertByDate(s[Len(s)], SortByDateAsc(SubSeq(s, 1, Len(s) - 1)))

\* Stable insertion of row r into rows sorted by completed_date descending.
RECURSIVE InsertByDateDesc(_, _)
InsertByDateDesc(r, s) ==
    IF s = <<>> THEN <<r>>
    ELSE IF s[Len(s)].completed_date >= r.completed_date THEN Append(s, r)
    ELSE Append(InsertByDateDesc(r, SubSeq(s, 1, Len(s) - 1)), s[Len(s)])

\* [...rows].sort((a, b) => b.completed_date - a.completed_date), stable.
RECURSIVE SortByDateDesc(_)
SortByDateDesc(s) ==
    IF s = <<>> THEN <<>>
    ELSE InsertByDateDesc(s[Len(s)], SortByDateDesc(SubSeq(s, 1, Len(s) - 1)))

\* FilterByDay without the test of the weekday: every completion is kept.
FilterByDayKeepAll(s, targetDay) == s

\* rows.filter(c => new Date(c.completed_date).getDay() === targetDay)
RECURSIVE FilterByDay(_, _)
FilterByDay(s, targetDay) ==
    IF s = <<>> THEN <<>>
    ELSE IF getDay(s[1].completed_date) = targetDay
         THEN <<s[1]>> \o FilterByDay(Tail(s), targetDay)
         ELSE FilterByDay(Tail(s), targetDay)

\* Rows of a table in id order.
RECURSIVE RowsById(_)
RowsById(S) ==
    IF S = {} THEN <<>>
    ELSE LET r == CHOOSE x \in S : \A y \in S : x.id <= y.id
         IN <<r>> \o RowsById(S \ {r})

\* The rows in the reverse of their insertion order, whatever their dates.
orderByIdDesc(rows) == Reverse(RowsById(rows))

\* Rows ordered by completed_date descending; equal dates in id order.
orderByDateDesc(rows) == SortByDateDesc(RowsById(rows))

\* selectCompletionsDesc without the where clause: the rows of every habit.
selectCompletionsDescAnyHabit(id) == orderByDateDesc(completions)

\* selectCompletionsDesc keeping only the first row of each calendar day.
selectCompletionsDescOnePerDay(id) ==
    orderByDateDesc({c \in completions :
                        /\ c.habit_id = id
                        /\ ~\E e \in completions :
                               /\ e.habit_id = id
                               /\ e.id < c.id
                               /\ LocalDay(e.completed_date) = LocalDay(c.completed_date)})

\* db.select().from(habitCompletionsTable).where(habit_id = id)
\*   .orderBy(desc(completed_date))
selectCompletionsDesc(id) ==
    orderByDateDesc({c \in completions : c.habit_id = id})

\* db.select().from(habitCompletionsTable).where(habit_id = id)
selectCompletions(id) == RowsById({c \in completions : c.habit_id = id})

\* ------------------------------------------------- get_habit_progress.ts

Frequencies ==
    {"daily", "weekly", "sunday", "monday", "tuesday", "wednesday",
     "thursday", "friday", "saturday"}

dayMap ==
    [d \in {"sunday", "monday", "tuesday", "wednesday", "thursday", "friday",
            "saturday"} |->
        CASE d = "sunday" -> 0 [] d = "monday" -> 1 [] d = "tuesday" -> 2
          [] d = "wednesday" -> 3 [] d = "thursday" -> 4 [] d = "friday" -> 5
          [] d = "saturday" -> 6]

\* dayMap[dayName]; undefined (matching no getDay()) for any other key.
dayMapLookup(dayName) ==
    IF dayName \in DOMAIN dayMap THEN dayMap[dayName] ELSE -1

\* hasCompletionOn without the comparison of the dates.
hasCompletionOnAnyDate(cs, dateStr) == \E k \in 1..Len(cs) : TRUE

\* completions.some(c => ISO date of c === dateStr)
hasCompletionOn(cs, dateStr) ==
    \E k \in 1..Len(cs) : toISODate(cs[k].completed_date) = dateStr

\* The for loop of calculateDailyStreak, from iteration i on.
RECURSIVE DailyStreakLoop(_, _, _, _)
DailyStreakLoop(cs, i, currentDate, streak) ==
    IF i > Len(cs) THEN streak
    ELSE IF hasCompletionOn(cs, toISODate(currentDate))
         THEN DailyStreakLoop(cs, i + 1, addDays(currentDate, -1), streak + 1)
         ELSE IF i > 0 THEN streak
              ELSE DailyStreakLoop(cs, i + 1, addDays(currentDate, -1), streak)

calculateDailyStreak(cs) ==
    IF Len(cs) = 0 THEN 0
    ELSE LET today == startOfDay(now)
         IN DailyStreakLoop(cs, 0, today, 0)

\* The for loop of calculateWeeklyStreak, from index i on (0-based).
RECURSIVE WeeklyStreakLoop(_, _, _, _)
WeeklyStreakLoop(uniqueWeeks, currentWeek, i, streak) ==
    IF i >= Len(uniqueWeeks) THEN streak
    ELSE IF uniqueWeeks[i + 1] = currentWeek - i
         THEN WeeklyStreakLoop(uniqueWeeks, currentWeek, i + 1, streak + 1)
         ELSE streak

calculateWeeklyStreak(cs) ==
    IF Len(cs) = 0 THEN 0
    ELSE LET today == now
             completionWeeks == {getWeekNumber(cs[k].completed_date) : k \in 1..Len(cs)}
             uniqueWeeks == SortedDesc(completionWeeks)
             currentWeek == getWeekNumber(today)
         IN WeeklyStreakLoop(uniqueWeeks, currentWeek, 0, 0)

\* while (currentDate.getDay() !== targetDay) currentDate.setDate(getDate() - 1)
RECURSIVE mostRecentTargetDay(_, _)
mostRecentTargetDay(currentDate, targetDay) ==
    IF getDay(currentDate) = targetDay THEN currentDate
    ELSE mostRecentTargetDay(addDays(currentDate, -1), targetDay)

\* The for loop of calculateSpecificDayStreak, from index i on (0-based).
RECURSIVE SpecificDayStreakLoop(_, _, _, _)
SpecificDayStreakLoop(dayCompletions, i, currentDate, streak) ==
    IF i >= Len(dayCompletions) THEN streak
    ELSE IF toISODate(dayCompletions[i + 1].completed_date) = toISODate(currentDate)
         THEN SpecificDayStreakLoop(dayCompletions, i + 1,
                                    addDays(currentDate, -DaysPerWeek), streak + 1)
         ELSE streak

calculateSpecificDayStreak(cs, dayName) ==
    IF Len(cs) = 0 THEN 0
    ELSE LET targetDay == dayMapLookup(dayName)
             today == now
             dayCompletions == SortByDateDesc(FilterByDay(cs, targetDay))
         IN IF Len(dayCompletions) = 0 THEN 0
            ELSE SpecificDayStreakLoop(dayCompletions, 0,
                                       mostRecentTargetDay(today, targetDay), 0)

calculateCurrentStreak(cs, frequency) ==
    IF Len(cs) = 0 THEN 0
    ELSE LET sortedCompletions == SortByDateAsc(cs)
         IN IF frequency = "daily" THEN calculateDailyStreak(sortedCompletions)
            ELSE IF frequency = "weekly" THEN calculateWeeklyStreak(sortedCompletions)
            ELSE calculateSpecificDayStreak(sortedCompletions, frequency)

\* LongestDailyLoop without the same-day branch: a second completion of a
\* day counts like the next day (daysDiff <= 1).
RECURSIVE LongestDailyLoopSameDayCounts(_, _, _, _, _)
LongestDailyLoopSameDayCounts(cs, i, maxStreak, currentStreak, lastDate) ==
    IF i > Len(cs) THEN maxStreak
    ELSE LET currentDate == startOfDay(cs[i].completed_date)
         IN IF lastDate = Null
            THEN LongestDailyLoopSameDayCounts(cs, i + 1, Max(maxStreak, 1), 1,
                                               Some(currentDate))
            ELSE LET daysDiff == Floor(currentDate - lastDate[1], HoursPerDay)
                 IN IF daysDiff <= 1
                    THEN LongestDailyLoopSameDayCounts(
                            cs, i + 1, Max(maxStreak, currentStreak + 1),
                            currentStreak + 1, Some(currentDate))
                    ELSE LongestDailyLoopSameDayCounts(cs, i + 1, Max(maxStreak, 1), 1,
                                                       Some(currentDate))

\* The for loop of calculateLongestDailyStreak over cs[i..]; lastDate = Null
\* before the first completion.
RECURSIVE LongestDailyLoop(_, _, _, _, _)
LongestDailyLoop(cs, i, maxStreak, currentStreak, lastDate) ==
    IF i > Len(cs) THEN maxStreak
    ELSE LET currentDate == startOfDay(cs[i].completed_date)
         IN IF lastDate = Null
            THEN LongestDailyLoop(cs, i + 1, Max(maxStreak, 1), 1, Some(currentDate))
            ELSE LET daysDiff == Floor(currentDate - lastDate[1], HoursPerDay)
                 IN IF daysDiff = 1
                    THEN LongestDailyLoop(cs, i + 1, Max(maxStreak, currentStreak + 1),
                                          currentStreak + 1, Some(currentDate))
                    ELSE IF daysDiff = 0
                    THEN LongestDailyLoop(cs, i + 1, maxStreak, currentStreak, lastDate)
                    ELSE LongestDailyLoop(cs, i + 1, Max(maxStreak, 1), 1,
                                          Some(currentDate))

calculateLongestDailyStreak(cs) ==
    IF Len(cs) = 0 THEN 0 ELSE LongestDailyLoop(cs, 1, 0, 0, Null)

\* The for loop shared by calculateLongestWeeklyStreak (over the sorted
\* distinct week numbers) and calculateLongestSpecificDayStreak (over the
\* week number of every filtered completion): weeks[i..].
RECURSIVE LongestWeekLoop(_, _, _, _, _)
LongestWeekLoop(weeks, i, maxStreak, currentStreak, lastWeek) ==
    IF i > Len(weeks) THEN maxStreak
    ELSE LET week == weeks[i]
             cur == IF lastWeek = Null THEN currentStreak + 1
                    ELSE IF week = lastWeek[1] + 1 THEN currentStreak + 1
                    ELSE 1
         IN LongestWeekLoop(weeks, i + 1, Max(maxStreak, cur), cur, Some(week))

calculateLongestWeeklyStreak(cs) ==
    IF Len(cs) = 0 THEN 0
    ELSE LET completionWeeks == {getWeekNumber(cs[k].completed_date) : k \in 1..Len(cs)}
             uniqueWeeks == SortedAsc(completionWeeks)
         IN LongestWeekLoop(uniqueWeeks, 1, 0, 0, Null)

calculateLongestSpecificDayStreak(cs, dayName) ==
    LET targetDay == dayMapLookup(dayName)
        dayCompletions == SortByDateAsc(FilterByDay(cs, targetDay))
    IN IF Len(dayCompletions) = 0 THEN 0
       ELSE LongestWeekLoop(
                [k \in 1..Len(dayCompletions) |->
                    getWeekNumber(dayCompletions[k].completed_date)],
                1, 0, 0, Null)

calculateLongestStreak(cs, frequency) ==
    IF Len(cs) = 0 THEN 0
    ELSE LET sortedCompletions == SortByDateAsc(cs)
         IN IF frequency = "daily" THEN calculateLongestDailyStreak(sortedCompletions)
            ELSE IF frequency = "weekly" THEN calculateLongestWeeklyStreak(sortedCompletions)
            ELSE calculateLongestSpecificDayStreak(sortedCompletions, frequency)

\* A completion rate is the exact quotient num / den, den > 0.
Rate(num, den) == [num |-> num, den |-> den]

\* minRate without the cap at 1.
minRateUncapped(n, expected) == Rate(n, expected)

\* Math.min(n / expected, 1) for expected > 0.
minRate(n, expected) == IF n >= expected THEN Rate(1, 1) ELSE Rate(n, expected)

\* while (currentDate <= now) { if (getDay() === targetDay) count++; +1 day }
RECURSIVE countOccurrences(_, _, _)
countOccurrences(currentDate, until, targetDay) ==
    IF currentDate > until THEN 0
    ELSE (IF getDay(currentDate) = targetDay THEN 1 ELSE 0)
         + countOccurrences(addDays(currentDate, 1), until, targetDay)

\* calculateCompletionRate without the "+ 1" that counts the day (or week)
\* of creation.
calculateCompletionRateElapsed(cs, frequency, createdAt) ==
    IF Len(cs) = 0 THEN Rate(0, 1)
    ELSE LET created == createdAt
             expectedCompletions ==
                IF frequency = "daily"
                THEN Max(Floor(now - created, HoursPerDay), 1)
                ELSE IF frequency = "weekly"
                THEN Max(Floor(now - created, HoursPerDay * DaysPerWeek), 1)
                ELSE Max(countOccurrences(created, now, dayMapLookup(frequency)), 1)
         IN minRate(Len(cs), expectedCompletions)

calculateCompletionRate(cs, frequency, createdAt) ==
    IF Len(cs) = 0 THEN Rate(0, 1)
    ELSE LET created == createdAt
             expectedCompletions ==
                IF frequency = "daily"
                THEN Max(Floor(now - created, HoursPerDay) + 1, 1)
                ELSE IF frequency = "weekly"
                THEN Max(Floor(now - created, HoursPerDay * DaysPerWeek) + 1, 1)
                ELSE Max(countOccurrences(created, now, dayMapLookup(frequency)), 1)
         IN minRate(Len(cs), expectedCompletions)

\* The record getHabitProgress builds from the habit row and its
\* completions cs (most recent first).
progressOf(habitData, cs) ==
    [habit_id |-> habitData.id,
     current_streak |->
        IF Len(cs) > 0 THEN calculateCurrentStreak(cs, habitData.frequency)
        ELSE 0,
     longest_streak |-> calculateLongestStreak(cs, habitData.frequency),
     last_completed_date |->
        IF Len(cs) > 0 THEN Some(cs[1].completed_date) ELSE Null,
     total_completions |-> Len(cs),
     completion_rate |->
        calculateCompletionRate(cs, habitData.frequency, habitData.created_at)]

\* What getHabitProgress resolves to; Null when the habit is missing.
getHabitProgress(id) ==
    IF id \notin DOMAIN habits THEN Null
    ELSE progressOf(habits[id], selectCompletionsDesc(id))

\* ------------------------------ mark_habit_complete.ts: getHabitsWithProgress

\* ListCurrentLoop without the break at a gap: every earlier day counts.
RECURSIVE ListCurrentLoopNoBreak(_, _, _)
ListCurrentLoopNoBreak(uniqueDates, i, currentStreak) ==
    IF i < 0 THEN currentStreak
    ELSE ListCurrentLoopNoBreak(uniqueDates, i - 1, currentStreak + 1)

\* Backward loop of the current streak, for (i = length - 2; i >= 0; i--),
\* over the ascending local midnights uniqueDates (i is 0-based).
RECURSIVE ListCurrentLoop(_, _, _)
ListCurrentLoop(uniqueDates, i, currentStreak) ==
    IF i < 0 THEN currentStreak
    ELSE LET daysDiff == Floor(uniqueDates[i + 2] - uniqueDates[i + 1], HoursPerDay)
         IN IF daysDiff = 1 THEN ListCurrentLoop(uniqueDates, i - 1, currentStreak + 1)
            ELSE currentStreak

\* Forward loop of the longest streak, for (i = 1; i < length; i++).
RECURSIVE ListLongestLoop(_, _, _, _)
ListLongestLoop(uniqueDates, i, tempStreak, longestStreak) ==
    IF i >= Len(uniqueDates) THEN longestStreak
    ELSE LET daysDiff == Floor(uniqueDates[i + 1] - uniqueDates[i], HoursPerDay)
         IN IF daysDiff = 1
            THEN ListLongestLoop(uniqueDates, i + 1, tempStreak + 1,
                                 Max(longestStreak, tempStreak + 1))
            ELSE ListLongestLoop(uniqueDates, i + 1, 1, longestStreak)

\* Distinct local midnights of the completions, ascending.
uniqueDatesOf(cs) ==
    LET sortedCompletions == Reverse(cs)
        completionDates == [k \in 1..Len(cs) |->
                               startOfDay(sortedCompletions[k].completed_date)]
    IN SortedAsc({completionDates[k] : k \in 1..Len(cs)})

listCurrentStreak(cs) ==
    IF Len(cs) = 0 THEN 0
    ELSE LET uniqueDates == uniqueDatesOf(cs)
             todayNormalized == startOfDay(now)
             mostRecentDate == uniqueDates[Len(uniqueDates)]
             daysSinceLastCompletion ==
                Floor(todayNormalized - mostRecentDate, HoursPerDay)
         IN IF daysSinceLastCompletion <= 1
            THEN ListCurrentLoop(uniqueDates, Len(uniqueDates) - 2, 1)
            ELSE 0

\* listLongestStreak with tempStreak and longestStreak set to 1 before the
\* test for an empty history.
listLongestStreakFromOne(cs) == ListLongestLoop(uniqueDatesOf(cs), 1, 1, 1)

listLongestStreak(cs) ==
    IF Len(cs) = 0 THEN 0
    ELSE ListLongestLoop(uniqueDatesOf(cs), 1, 1, 1)

\* Math.round(x * 1000) / 1000 of the quotient x = num / den >= 0.
round3(num, den) == Rate(Floor(2000 * num + den, 2 * den), 1000)

listCompletionRate(totalCompletions, frequency, createdAt) ==
    IF totalCompletions = 0 THEN Rate(0, 1000)
    ELSE LET habitCreatedDate == createdAt
             currentDate == now
             daysSinceCreation ==
                Floor(currentDate - habitCreatedDate, HoursPerDay) + 1
             expectedCompletions ==
                IF frequency = "daily" THEN daysSinceCreation
                ELSE IF frequency = "weekly" THEN Ceil(daysSinceCreation, DaysPerWeek)
                ELSE countOccurrences(habitCreatedDate, currentDate,
                                      dayMapLookup(frequency))
             completionRate ==
                IF expectedCompletions > 0
                THEN minRate(totalCompletions, expectedCompletions)
                ELSE Rate(0, 1)
         IN round3(completionRate.num, completionRate.den)

\* One element of the array getHabitsWithProgress resolves to, built from
\* the habit row and its completions cs (most recent first).
habitWithProgress(habit, cs) ==
    LET totalCompletions == Len(cs)
    IN [id |-> habit.id,
        name |-> habit.name,
        description |-> habit.description,
        type |-> habit.type,
        frequency |-> habit.frequency,
        created_at |-> habit.created_at,
        updated_at |-> habit.updated_at,
        progress |->
           [habit_id |-> habit.id,
            current_streak |-> listCurrentStreak(cs),
            longest_streak |-> listLongestStreak(cs),
            last_completed_date |->
               IF Len(cs) > 0 THEN Some(cs[1].completed_date) ELSE Null,
            total_completions |-> totalCompletions,
            completion_rate |->
               listCompletionRate(totalCompletions, habit.frequency, habit.created_at)]]

getHabitsWithProgress ==
    LET rows == RowsById({habits[id] : id \in DOMAIN habits})
    IN [k \in 1..Len(rows) |->
           habitWithProgress(rows[k], selectCompletionsDesc(rows[k].id))]

\* ------------------------------------------------------------ the tables

\* Bounds of the model.
MaxHabits == 2          \* habits ever created (ids are never reused)
MaxCompletions == 3     \* completion rows seeded for the calculations
MaxMarks == 2           \* completion rows inserted in a run of the service

\* UTC offsets of the server.
TZOffsets == {-5, 0, 2}

\* 2024-01-01T12:00Z, a Monday: the first working day after a year boundary.
NewYearNoon == 365 * HoursPerDay + 12

\* Hours the clock advances in one tick (a day and a bit).
TickHours == HoursPerDay + 5

\* Values of the clock in a run of the service.
ServiceClock == {NewYearNoon, NewYearNoon + TickHours}

\* A row of habitsTable.
habitRow(id, input, at) ==
    [id |-> id, name |-> input.name, description |-> input.description,
     type |-> input.type, frequency |-> input.frequency,
     created_at |-> at, updated_at |-> at]

\* A row of habitCompletionsTable (its own created_at is never read).
completionRow(id, habit_id, completed_date) ==
    [id |-> id, habit_id |-> habit_id, completed_date |-> completed_date]

\* cascade without the foreign key's onDelete: the completions stay.
cascadeNone(id) == completions

\* Rows left in habit_completions once habit id is deleted:
\* habit_id references habits.id with onDelete: 'cascade'.
cascade(id) == {c \in completions : c.habit_id # id}

\* -------------------------------------------------------------- handlers

CreateInputs ==
    {[name |-> "run", description |-> Some("every morning"), type |-> "daily",
      frequency |-> "daily"],
     [name |-> "read", description |-> Null, type |-> "long-term",
      frequency |-> "monday"]}

\* createHabit: insert a row with the next id; created_at and updated_at
\* default to now.
createHabit(input) ==
    /\ nextHabitId <= MaxHabits
    /\ LET row == habitRow(nextHabitId, input, now)
       IN /\ habits' = [id \in DOMAIN habits \cup {nextHabitId} |->
                            IF id = nextHabitId THEN row ELSE habits[id]]
          /\ response' = [op |-> "createHabit", value |-> row]
    /\ nextHabitId' = nextHabitId + 1
    /\ UNCHANGED <<completions, nextCompletionId, now, tz, calls>>

\* duplicateCompletion comparing the instants instead of the date strings.
duplicateCompletionExactTime(habit_id, completedDate) ==
    LET existingCompletions == selectCompletions(habit_id)
    IN \E k \in 1..Len(existingCompletions) :
          existingCompletions[k].completed_date = completedDate

\* Whether some existing completion of the habit is on the local calendar
\* day of completedDate (toDateString() of both).
duplicateCompletion(habit_id, completedDate) ==
    LET existingCompletions == selectCompletions(habit_id)
    IN \E k \in 1..Len(existingCompletions) :
          toDateString(existingCompletions[k].completed_date)
             = toDateString(completedDate)

\* markHabitComplete(input); input.completed_date is Null when omitted.
markHabitComplete(input) ==
    LET completedDate ==
            IF input.completed_date = Null THEN now ELSE input.completed_date[1]
    IN  /\ nextCompletionId <= MaxMarks
        /\ IF input.habit_id \notin DOMAIN habits
           THEN /\ response' = [op |-> "markHabitComplete", input |-> input,
                                error |-> "Habit not found"]
                /\ UNCHANGED <<completions, nextCompletionId>>
           ELSE IF duplicateCompletion(input.habit_id, completedDate)
           THEN /\ response' = [op |-> "markHabitComplete", input |-> input,
                                error |-> "Habit already completed for this date"]
                /\ UNCHANGED <<completions, nextCompletionId>>
           ELSE LET row == completionRow(nextCompletionId, input.habit_id,
                                         completedDate)
                IN /\ completions' = completions \cup {row}
                   /\ nextCompletionId' = nextCompletionId + 1
                   /\ response' = [op |-> "markHabitComplete", input |-> input,
                                   error |-> "", value |-> row]
        /\ UNCHANGED <<habits, nextHabitId, now, tz, calls>>

\* deleteHabit reporting success whatever the delete returned.
deleteHabitAlwaysSuccess(input) ==
    LET result == {habits[id] : id \in DOMAIN habits \cap {input.id}}
    IN  /\ habits' = [id \in DOMAIN habits \ {input.id} |-> habits[id]]
        /\ completions' = IF result # {} THEN cascade(input.id) ELSE completions
        /\ response' = [op |-> "deleteHabit", input |-> input, success |-> TRUE]
        /\ UNCHANGED <<nextHabitId, nextCompletionId, now, tz,
                     calls, clientHabits>>

\* deleteHabit(input): delete ... where id = input.id returning; the
\* completions of the habit go with it.
deleteHabit(input) ==
    LET result == {habits[id] : id \in DOMAIN habits \cap {input.id}}
    IN  /\ habits' = [id \in DOMAIN habits \ {input.id} |-> habits[id]]
        /\ completions' = IF result # {} THEN cascade(input.id) ELSE completions
        /\ response' = [op |-> "deleteHabit", input |-> input,
                        success |-> Cardinality(result) > 0]
        /\ UNCHANGED <<nextHabitId, nextCompletionId, now, tz,
                     calls, clientHabits>>

\* The fields an updateHabit input may carry besides id.
UpdateFields == {"name", "description", "type", "frequency"}

UpdateInputs(ids) ==
    { [id |-> i, name |-> "walk"] : i \in ids }
    \cup { [id |-> i, description |-> Null] : i \in ids }
    \cup { [id |-> i, type |-> "long-term", frequency |-> "weekly"] : i \in ids }
    \cup { [id |-> i] : i \in ids }

\* `Habit with ID ${id} not found`
habitWithIdNotFound(id) == <<"Habit with ID ", id, " not found">>

\* updateHabit writing null for a description the input omits.
updateHabitOmittedDescriptionNull(input) ==
    LET updateData == [f \in (DOMAIN input \cap UpdateFields)
                                \cup {"updated_at", "description"} |->
                          IF f = "updated_at" THEN now
                          ELSE IF f \in DOMAIN input THEN input[f] ELSE Null]
        result == {habits[id] : id \in DOMAIN habits \cap {input.id}}
    IN  /\ IF result = {}
           THEN /\ response' = [op |-> "updateHabit", input |-> input,
                                error |-> Some(habitWithIdNotFound(input.id))]
                /\ UNCHANGED habits
           ELSE LET row == [f \in DOMAIN habits[input.id] |->
                               IF f \in DOMAIN updateData THEN updateData[f]
                               ELSE habits[input.id][f]]
                IN /\ habits' = [habits EXCEPT ![input.id] = row]
                   /\ response' = [op |-> "updateHabit", input |-> input,
                                   error |-> Null, value |-> row]
        /\ UNCHANGED <<completions, nextHabitId, nextCompletionId, now, tz,
                     calls, clientHabits>>

\* updateHabit(input): set the provided fields and updated_at; error is
\* the message thrown, Null when the call returns the row.
updateHabit(input) ==
    LET updateData == [f \in (DOMAIN input \cap UpdateFields) \cup {"updated_at"} |->
                          IF f = "updated_at" THEN now ELSE input[f]]
        result == {habits[id] : id \in DOMAIN habits \cap {input.id}}
    IN  /\ IF result = {}
           THEN /\ response' = [op |-> "updateHabit", input |-> input,
                                error |-> Some(habitWithIdNotFound(input.id))]
                /\ UNCHANGED habits
           ELSE LET row == [f \in DOMAIN habits[input.id] |->
                               IF f \in DOMAIN updateData THEN updateData[f]
                               ELSE habits[input.id][f]]
                IN /\ habits' = [habits EXCEPT ![input.id] = row]
                   /\ response' = [op |-> "updateHabit", input |-> input,
                                   error |-> Null, value |-> row]
        /\ UNCHANGED <<completions, nextHabitId, nextCompletionId, now, tz,
                     calls, clientHabits>>

\* The getHabitProgress query: the response is the record, or null.
queryHabitProgress(input) ==
    /\ response' = [op |-> "getHabitProgress", input |-> input,
                    found |-> input.id \in DOMAIN habits,
                    value |-> getHabitProgress(input.id)]
    /\ UNCHANGED <<habits, completions, nextHabitId, nextCompletionId, now, tz,
                     calls, clientHabits>>

\* The getHabitsWithProgress query.
queryHabitsWithProgress ==
    /\ response' = [op |-> "getHabitsWithProgress", value |-> getHabitsWithProgress]
    /\ UNCHANGED <<habits, completions, nextHabitId, nextCompletionId, now, tz,
                     calls, clientHabits>>

\* The clock advances.
Tick ==
    /\ now + TickHours \in ServiceClock
    /\ now' = now + TickHours
    /\ response' = [op |-> "tick"]
    /\ UNCHANGED <<habits, completions, nextHabitId, nextCompletionId, tz, calls, clientHabits>>

\* ------------------------------------------------ the service, Spec

\* Dates a client may send to markHabitComplete at a given time: omitted,
\* the day before, or eleven hours on.
MarkDates == {Null, Some(now - HoursPerDay), Some(now + 11)}

HabitIds == 1..(MaxHabits + 1)

Init ==
    /\ habits = <<>>
    /\ completions = {}
    /\ nextHabitId = 1
    /\ nextCompletionId = 1
    /\ now = NewYearNoon
    /\ tz \in TZOffsets
    /\ calls = EmptyBag
    /\ clientHabits = <<>>
    /\ response = [op |-> "start"]

CreateHabit ==
    /\ \E input \in CreateInputs : createHabit(input)
    /\ UNCHANGED clientHabits

DeleteHabit == \E id \in HabitIds : deleteHabit([id |-> id])

MarkHabitComplete ==
    /\ \E id \in HabitIds, d \in MarkDates :
          markHabitComplete([habit_id |-> id, completed_date |-> d])
    /\ UNCHANGED clientHabits

GetHabitProgress == \E id \in HabitIds : queryHabitProgress([id |-> id])

GetHabitsWithProgress == queryHabitsWithProgress

Next ==
    \/ CreateHabit
    \/ DeleteHabit
    \/ MarkHabitComplete
    \/ GetHabitProgress
    \/ GetHabitsWithProgress
    \/ Tick

Spec == Init /\ [][Next]_vars

\* ------------------------------------- the calculations, SpecProgress

\* Values of the clock: just after a year boundary, and later in January
\* (2024-01-24T12:00Z, a Wednesday).
Nows == {NewYearNoon, NewYearNoon + 23 * HoursPerDay}

\* created_at relative to the clock (hours): in the future, an hour ago,
\* two days ago, fifteen days ago.
CreatedOffsets == {30, -1, -2 * HoursPerDay - 1, -15 * HoursPerDay}

\* completed_date relative to the clock (hours): two weeks, one week, two
\* days and one day ago, late the evening before, early this morning, now,
\* an hour on, tomorrow.
SeedOffsets ==
    {-14 * HoursPerDay, -7 * HoursPerDay, -2 * HoursPerDay, -HoursPerDay,
     -13, -10, 0, 1, HoursPerDay}

InitProgress ==
    /\ now \in Nows
    /\ tz \in TZOffsets
    /\ calls = EmptyBag
    /\ clientHabits = <<>>
    /\ \E f \in Frequencies, c \in CreatedOffsets :
          habits = [id \in {1} |->
                       habitRow(1,
                                [name |-> "habit", description |-> Null,
                                 type |-> "daily", frequency |-> f],
                                now + c)]
    /\ completions = {}
    /\ nextHabitId = 2
    /\ nextCompletionId = 1
    /\ response = [op |-> "start"]

\* db.insert(habitCompletionsTable).values({habit_id, completed_date}): a
\* row written straight to the table, as the tests seed it; rows are
\* seeded in date order.
insertCompletion(habit_id, completed_date) ==
    /\ nextCompletionId <= MaxCompletions
    /\ \A c \in completions : c.completed_date <= completed_date
    /\ completions' = completions
          \cup {completionRow(nextCompletionId, habit_id, completed_date)}
    /\ nextCompletionId' = nextCompletionId + 1
    /\ response' = [op |-> "insert"]
    /\ UNCHANGED <<habits, nextHabitId, now, tz,
                     calls, clientHabits>>

InsertCompletion ==
    \E id \in DOMAIN habits, o \in SeedOffsets : insertCompletion(id, now + o)

NextProgress ==
    \/ InsertCompletion
    \/ GetHabitProgress
    \/ GetHabitsWithProgress

SpecProgress == InitProgress /\ [][NextProgress]_vars

\* ------------------------------------- the completion rate, SpecRate

\* Bounds of the rate calculation: the record counts 1..MaxCount, and a
\* habit RateDays days old with nearly as many records as days.
MaxCount == 3
RateDays == 3000

\* Numbers of completion records the rate is calculated for.
RateCounts == (1..MaxCount) \cup {RateDays - 1, RateDays}

\* Age of the habit in hours: created in the future, an hour ago, two days
\* ago, fifteen days ago; and, for the frequencies whose expected count is
\* a quotient, a little under RateDays days ago.
RateAges(f) ==
    {-30, 1, 2 * HoursPerDay + 1, 15 * HoursPerDay}
       \cup (IF f \in {"daily", "weekly"}
             THEN {(RateDays - 1) * HoursPerDay + 5} ELSE {})

InitRate ==
    /\ now \in Nows
    /\ tz \in TZOffsets
    /\ calls = EmptyBag
    /\ clientHabits = <<>>
    /\ \E f \in Frequencies : \E a \in RateAges(f) :
          habits = [id \in {1} |->
                       habitRow(1,
                                [name |-> "habit", description |-> Null,
                                 type |-> "daily", frequency |-> f],
                                now - a)]
    /\ completions = {}
    /\ nextHabitId = 2
    /\ nextCompletionId = 1
    /\ response = [op |-> "start"]

\* The completion rate both endpoints calculate for habit id when it has n
\* completion records.
completionRates(id, n) ==
    LET habit == habits[id]
        cs == [k \in 1..n |-> completionRow(k, id, now)]
    IN /\ response' =
             [op |-> "completionRate", input |-> [id |-> id, n |-> n],
              single |-> calculateCompletionRate(cs, habit.frequency, habit.created_at),
              listed |-> listCompletionRate(n, habit.frequency, habit.created_at)]
       /\ UNCHANGED <<habits, completions, nextHabitId, nextCompletionId, now, tz,
                     calls, clientHabits>>

CompletionRates == \E id \in DOMAIN habits, n \in RateCounts : completionRates(id, n)

NextRate == CompletionRates

SpecRate == InitRate /\ [][NextRate]_vars

\* ------------------------- the calculation as a function, SpecCalculation

\* Frequency arguments of the calculation: the nine of the schema and a
\* string outside it (the functions take frequency: string).
CalculationFrequencies == Frequencies \cup {"fortnightly"}

InitCalculation ==
    /\ now \in Nows
    /\ tz \in TZOffsets
    /\ calls = EmptyBag
    /\ clientHabits = <<>>
    /\ \E c \in CreatedOffsets :
          habits = [id \in {1} |->
                       habitRow(1,
                                [name |-> "habit", description |-> Null,
                                 type |-> "daily", frequency |-> "daily"],
                                now + c)]
    /\ completions = {}
    /\ nextHabitId = 2
    /\ nextCompletionId = 1
    /\ response = [op |-> "start"]

\* The progress calculation of both endpoints applied to the frequency
\* argument given, the created_at of habit id and its completion rows. No
\* path of the functions throws: threw is FALSE on every path.
calculateProgress(id, frequency) ==
    LET habit == [habits[id] EXCEPT !.frequency = frequency]
        cs == selectCompletionsDesc(id)
    IN /\ response' =
             [op |-> "calculateProgress",
              input |-> [id |-> id, frequency |-> frequency],
              threw |-> FALSE,
              single |-> progressOf(habit, cs),
              listed |-> habitWithProgress(habit, cs).progress]
       /\ UNCHANGED <<habits, completions, nextHabitId, nextCompletionId, now, tz,
                     calls, clientHabits>>

CalculateProgress ==
    \E id \in DOMAIN habits, f \in CalculationFrequencies : calculateProgress(id, f)

NextCalculation ==
    \/ InsertCompletion
    \/ CalculateProgress

SpecCalculation == InitCalculation /\ [][NextCalculation]_vars

\* ------------------------------------------- habit updates, SpecUpdate

\* MaxHabits habits created a day before, each with one completion made an
\* hour after its creation.
InitUpdate ==
    /\ now = NewYearNoon
    /\ tz \in TZOffsets
    /\ calls = EmptyBag
    /\ clientHabits = <<>>
    /\ \E inputs \in [1..MaxHabits -> CreateInputs] :
          habits = [id \in 1..MaxHabits |->
                       habitRow(id, inputs[id], NewYearNoon - HoursPerDay)]
    /\ completions = {completionRow(id, id, NewYearNoon - HoursPerDay + 1) :
                         id \in 1..MaxHabits}
    /\ nextHabitId = MaxHabits + 1
    /\ nextCompletionId = MaxHabits + 1
    /\ response = [op |-> "start"]

UpdateHabit == \E input \in UpdateInputs(HabitIds) : updateHabit(input)

NextUpdate ==
    \/ UpdateHabit
    \/ Tick

SpecUpdate == InitUpdate /\ [][NextUpdate]_vars

\* ------------------------- interleaved handler calls, SpecConcurrent

\* markHabitComplete calls in flight at a time.
MaxCalls == 2

\* The calls in flight without call c, which has returned or thrown.
returned(c) == calls (-) SetToBag({c})

\* The calls in flight once call c has moved on to its step pc.
resumed(c, pc) == returned(c) (+) SetToBag({[c EXCEPT !.pc = pc]})

\* A call of markHabitComplete is accepted: completedDate is evaluated and
\* the handler is about to await the select on habitsTable.
callMarkHabitComplete(input) ==
    /\ BagCardinality(calls) < MaxCalls
    /\ nextCompletionId + BagCardinality(calls) <= MaxMarks
    /\ calls' = calls (+) SetToBag({
                       [input |-> input,
                        completedDate |-> IF input.completed_date = Null THEN now
                                          ELSE input.completed_date[1],
                        pc |-> "selectHabit"]})
    /\ response' = [op |-> "callMarkHabitComplete"]
    /\ UNCHANGED <<habits, completions, nextHabitId, nextCompletionId, now, tz,
                   clientHabits>>

\* The select on habitsTable of call c resolves.
markSelectHabit(c) ==
    /\ c.pc = "selectHabit"
    /\ IF c.input.habit_id \notin DOMAIN habits
       THEN /\ calls' = returned(c)
            /\ response' = [op |-> "markHabitComplete", input |-> c.input,
                            error |-> "Habit not found"]
       ELSE /\ calls' = resumed(c, "selectCompletions")
            /\ response' = [op |-> "markSelectHabit"]
    /\ UNCHANGED <<habits, completions, nextHabitId, nextCompletionId, now, tz,
                   clientHabits>>

\* The select on habitCompletionsTable of call c resolves and the
\* duplicate is looked for.
markSelectCompletions(c) ==
    /\ c.pc = "selectCompletions"
    /\ IF duplicateCompletion(c.input.habit_id, c.completedDate)
       THEN /\ calls' = returned(c)
            /\ response' = [op |-> "markHabitComplete", input |-> c.input,
                            error |-> "Habit already completed for this date"]
       ELSE /\ calls' = resumed(c, "insert")
            /\ response' = [op |-> "markSelectCompletions"]
    /\ UNCHANGED <<habits, completions, nextHabitId, nextCompletionId, now, tz,
                   clientHabits>>

\* markInsert without the foreign key: the row is stored whether or not
\* the habit is still there.
markInsertNoForeignKey(c) ==
    /\ c.pc = "insert"
    /\ LET row == completionRow(nextCompletionId, c.input.habit_id,
                                c.completedDate)
       IN /\ completions' = completions \cup {row}
          /\ nextCompletionId' = nextCompletionId + 1
          /\ response' = [op |-> "markHabitComplete", input |-> c.input,
                          error |-> "", value |-> row]
    /\ calls' = returned(c)
    /\ UNCHANGED <<habits, nextHabitId, now, tz, clientHabits>>

\* The insert of call c executes. habit_id references habitsTable.id, so
\* the database rejects a row for a habit that is no longer there; the
\* table has no unique constraint on (habit_id, day).
markInsert(c) ==
    /\ c.pc = "insert"
    /\ IF c.input.habit_id \notin DOMAIN habits
       THEN /\ response' = [op |-> "markHabitComplete", input |-> c.input,
                            error |-> "violates foreign key constraint"]
            /\ UNCHANGED <<completions, nextCompletionId>>
       ELSE LET row == completionRow(nextCompletionId, c.input.habit_id,
                                     c.completedDate)
            IN /\ completions' = completions \cup {row}
               /\ nextCompletionId' = nextCompletionId + 1
               /\ response' = [op |-> "markHabitComplete",
                               input |-> c.input,
                               error |-> "", value |-> row]
    /\ calls' = returned(c)
    /\ UNCHANGED <<habits, nextHabitId, now, tz, clientHabits>>

\* completed_date of the interleaved calls: omitted, or yesterday.
CallDates == {Null, Some(now - HoursPerDay)}

CallMarkHabitComplete ==
    \E id \in HabitIds, d \in CallDates :
        callMarkHabitComplete([habit_id |-> id, completed_date |-> d])

MarkSelectHabit == \E c \in BagToSet(calls) : markSelectHabit(c)

MarkSelectCompletions == \E c \in BagToSet(calls) : markSelectCompletions(c)

MarkInsert == \E c \in BagToSet(calls) : markInsert(c)

\* Habit creation and deleteHabit are one statement each; the steps of the
\* markHabitComplete calls interleave with them and with each other.
NextConcurrent ==
    \/ CreateHabit
    \/ DeleteHabit
    \/ CallMarkHabitComplete
    \/ MarkSelectHabit
    \/ MarkSelectCompletions
    \/ MarkInsert

SpecConcurrent == Init /\ [][NextConcurrent]_vars

\* ------------------------------------------ the client, SpecClient

\* loadHabits: setHabits(await trpc.getHabitsWithProgress.query()).
loadHabits ==
    /\ clientHabits' = getHabitsWithProgress
    /\ response' = [op |-> "loadHabits"]
    /\ UNCHANGED <<habits, completions, nextHabitId, nextCompletionId, now, tz, calls>>

\* handleCreateHabit(formData): the habit the server created is appended
\* with an all-zero progress record.
handleCreateHabit(formData) ==
    /\ createHabit(formData)
    /\ LET newHabit == response'.value
           habitWithProgressZero ==
              [id |-> newHabit.id, name |-> newHabit.name,
               description |-> newHabit.description, type |-> newHabit.type,
               frequency |-> newHabit.frequency,
               created_at |-> newHabit.created_at,
               updated_at |-> newHabit.updated_at,
               progress |->
                  [habit_id |-> newHabit.id,
                   current_streak |-> 0,
                   longest_streak |-> 0,
                   last_completed_date |-> Null,
                   total_completions |-> 0,
                   completion_rate |-> Rate(0, 1)]]
       IN clientHabits' = Append(clientHabits, habitWithProgressZero)

\* Math.min(1, r + 0.1) of a rate r.
plusTenth(r) ==
    IF 10 * r.num + r.den >= 10 * r.den THEN Rate(1, 1)
    ELSE Rate(10 * r.num + r.den, 10 * r.den)

\* handleMarkComplete(habitId): the server is asked to complete the habit
\* now; when the call succeeds the habit's progress in the list is bumped,
\* when it throws the list is left alone.
handleMarkComplete(habitId) ==
    /\ markHabitComplete([habit_id |-> habitId, completed_date |-> Some(now)])
    /\ clientHabits' =
          IF response'.error = ""
          THEN [k \in 1..Len(clientHabits) |->
                   LET habit == clientHabits[k]
                   IN IF habit.id = habitId
                      THEN [habit EXCEPT
                              !.progress =
                                 [@ EXCEPT
                                    !.current_streak = @ + 1,
                                    !.total_completions = @ + 1,
                                    !.last_completed_date = Some(now),
                                    !.completion_rate = plusTenth(@)]]
                      ELSE habit]
          ELSE clientHabits

LoadHabits == loadHabits

HandleCreateHabit == \E formData \in CreateInputs : handleCreateHabit(formData)

HandleMarkComplete ==
    \E k \in 1..Len(clientHabits) : handleMarkComplete(clientHabits[k].id)

ClientTick == Tick

NextClient ==
    \/ LoadHabits
    \/ HandleCreateHabit
    \/ HandleMarkComplete
    \/ ClientTick

SpecClient == Init /\ [][NextClient]_vars

\* ---------------------------------------------------------------- claims

\* The last operation was a getHabitProgress that found its habit.
IsProgress == response.op = "getHabitProgress" /\ response.found

\* The last operation was a getHabitsWithProgress.
IsList == response.op = "getHabitsWithProgress"

\* The progress records of the last getHabitsWithProgress.
ListProgress == {response.value[k].progress : k \in 1..Len(response.value)}

\* Completion rows of a habit, and the local calendar days they fall on.
CompletionsOf(id) == {c \in completions : c.habit_id = id}
DaysOf(rows) == {LocalDay(c.completed_date) : c \in rows}
Today == LocalDay(now)

\* C1: every record getHabitProgress returns has
\* current_streak <= longest_streak.
C1_CurrentAtMostLongest ==
    IsProgress => response.value.current_streak <= response.value.longest_streak

\* C2: every progress record getHabitsWithProgress returns has
\* current_streak <= longest_streak, also with completions dated after now.
C2_ListCurrentAtMostLongest ==
    IsList => \A p \in ListProgress : p.current_streak <= p.longest_streak

\* A list response for a habit with a completion dated after now and a
\* current streak of two days.
C2_Witness ==
    /\ IsList
    /\ \E c \in completions : c.completed_date > now
    /\ \E p \in ListProgress : p.current_streak = 2

\* A rate lies in [0, 1].
InUnitInterval(r) == r.den > 0 /\ 0 <= r.num /\ r.num <= r.den

\* C3: completion_rate of getHabitProgress and of getHabitsWithProgress lies
\* in [0, 1], also for a habit created after now.
C3_RateInUnitInterval ==
    /\ IsProgress => InUnitInterval(response.value.completion_rate)
    /\ IsList => \A p \in ListProgress : InUnitInterval(p.completion_rate)

\* A getHabitProgress response for a habit created after now that has more
\* completions than elapsed periods.
C3_Witness ==
    /\ IsProgress
    /\ habits[response.input.id].created_at > now
    /\ response.value.total_completions >= 2

\* The date a markHabitComplete input asks for.
RequestedDate(input) ==
    IF input.completed_date = Null THEN now ELSE input.completed_date[1]

\* C4: markHabitComplete inserts exactly one row with the given habit_id
\* and date if and only if the habit exists and has no completion on the
\* same calendar day; otherwise it fails with 'Habit not found' or 'Habit
\* already completed for this date' and leaves the completions unchanged.
C4_MarkInsertsIffNewDay ==
    [][response'.op = "markHabitComplete" =>
        LET input == response'.input
            date == RequestedDate(input)
            exists == input.habit_id \in DOMAIN habits
            sameDay == {c \in CompletionsOf(input.habit_id) :
                           LocalDay(c.completed_date) = LocalDay(date)}
        IN /\ (~exists) =>
                (/\ response'.error = "Habit not found"
                 /\ completions' = completions)
           /\ (exists /\ sameDay # {}) =>
                (/\ response'.error = "Habit already completed for this date"
                 /\ completions' = completions)
           /\ (exists /\ sameDay = {}) =>
                (/\ response'.error = ""
                 /\ \E r \in completions' :
                       /\ r \notin completions
                       /\ completions' = completions \cup {r}
                       /\ r.habit_id = input.habit_id
                       /\ r.completed_date = date)
    ]_vars

\* A markHabitComplete rejected as a duplicate although the stored record
\* of that day has another time of day.
C4_Witness ==
    /\ response.op = "markHabitComplete"
    /\ response.error = "Habit already completed for this date"
    /\ \E c \in CompletionsOf(response.input.habit_id) :
          /\ LocalDay(c.completed_date) = LocalDay(RequestedDate(response.input))
          /\ c.completed_date # RequestedDate(response.input)

\* C5: a successful deleteHabit(id) removes the habit and every completion
\* of it, and changes no other habit and no completion of another habit.
C5_DeleteCascades ==
    [][(response'.op = "deleteHabit" /\ response'.success) =>
        LET id == response'.input.id
        IN /\ id \notin DOMAIN habits'
           /\ \A c \in completions' : c.habit_id # id
           /\ DOMAIN habits' = DOMAIN habits \ {id}
           /\ \A h \in DOMAIN habits' : habits'[h] = habits[h]
           /\ completions' = {c \in completions : c.habit_id # id}
    ]_vars

\* A successful deleteHabit that removed completions while another habit
\* and its completions remain.
C5_Witness ==
    /\ response.op = "deleteHabit"
    /\ response.success
    /\ completions # {}
    /\ \A c \in completions : c.habit_id \in DOMAIN habits
    /\ Cardinality(completions) < nextCompletionId - 1

\* C6: deleteHabit(id) returns success = true exactly when the habit
\* existed; otherwise it returns false and changes no habit and no
\* completion.
C6_DeleteSuccessIffExisted ==
    [][response'.op = "deleteHabit" =>
        LET id == response'.input.id
        IN /\ response'.success <=> id \in DOMAIN habits
           /\ (id \notin DOMAIN habits) =>
                (habits' = habits /\ completions' = completions)
    ]_vars

\* A deleteHabit that returned false for an id that had been created, that
\* is, the second delete of the same habit.
C6_Witness ==
    /\ response.op = "deleteHabit"
    /\ ~response.success
    /\ response.input.id < nextHabitId
    /\ completions # {}

\* All fields of a progress record are zero or absent.
ZeroProgress(p) ==
    /\ p.current_streak = 0
    /\ p.longest_streak = 0
    /\ p.last_completed_date = Null
    /\ p.total_completions = 0
    /\ p.completion_rate.num = 0

\* C7: for a habit without completion records, getHabitProgress and the
\* habit's entry of getHabitsWithProgress report current_streak = 0,
\* longest_streak = 0, last_completed_date = null, total_completions = 0 and
\* completion_rate = 0.
C7_NoCompletionsZeroProgress ==
    /\ (IsProgress /\ CompletionsOf(response.input.id) = {}) =>
          ZeroProgress(response.value)
    /\ IsList =>
          \A p \in ListProgress :
             CompletionsOf(p.habit_id) = {} => ZeroProgress(p)

\* A getHabitProgress response for a weekday habit without completions
\* that was created two days before.
C7_Witness ==
    /\ IsProgress
    /\ completions = {}
    /\ habits[response.input.id].frequency = "friday"
    /\ habits[response.input.id].created_at < now - HoursPerDay

\* Number of consecutive days of D counted backwards from day d.
RECURSIVE RunEndingAt(_, _)
RunEndingAt(D, d) == IF d \in D THEN 1 + RunEndingAt(D, d - 1) ELSE 0

\* Length of the longest run of consecutive days in D.
LongestRun(D) == IF D = {} THEN 0 ELSE SetMax({RunEndingAt(D, d) : d \in D})

\* The daily habits with a completion today and none after today.
CompletedTodayNoneLater(id) ==
    /\ habits[id].frequency = "daily"
    /\ Today \in DaysOf(CompletionsOf(id))
    /\ \A d \in DaysOf(CompletionsOf(id)) : d <= Today

\* C8: for a daily habit with a completion today and none after today,
\* current_streak of getHabitProgress and of getHabitsWithProgress is the
\* number of consecutive calendar days, counted backwards from today, that
\* each have a completion.
C8_DailyCurrentStreakFromToday ==
    /\ (IsProgress /\ CompletedTodayNoneLater(response.input.id)) =>
          response.value.current_streak
             = RunEndingAt(DaysOf(CompletionsOf(response.input.id)), Today)
    /\ IsList =>
          \A p \in ListProgress :
             CompletedTodayNoneLater(p.habit_id) =>
                p.current_streak = RunEndingAt(DaysOf(CompletionsOf(p.habit_id)), Today)

\* C9: for a daily habit, longest_streak of getHabitProgress and of
\* getHabitsWithProgress is the length of the longest run of consecutive
\* calendar days that each have a completion.
C9_DailyLongestStreakIsLongestRun ==
    /\ (IsProgress /\ habits[response.input.id].frequency = "daily") =>
          response.value.longest_streak
             = LongestRun(DaysOf(CompletionsOf(response.input.id)))
    /\ IsList =>
          \A p \in ListProgress :
             habits[p.habit_id].frequency = "daily" =>
                p.longest_streak = LongestRun(DaysOf(CompletionsOf(p.habit_id)))

\* A getHabitProgress response for a daily habit whose longest run, of two
\* days, ended before today, with a same-day duplicate in the history.
C9_Witness ==
    /\ IsProgress
    /\ habits[response.input.id].frequency = "daily"
    /\ response.value.longest_streak = 2
    /\ response.value.total_completions = 3
    /\ \A d \in DaysOf(CompletionsOf(response.input.id)) : d < Today

\* The streaks and the count that both endpoints report for a habit row
\* with the completion rows cs.
StreaksOf(habit, rows) ==
    LET cs == orderByDateDesc(rows)
        single == progressOf(habit, cs)
        listed == habitWithProgress(habit, cs).progress
    IN [single |-> <<single.current_streak, single.longest_streak>>,
        listed |-> <<listed.current_streak, listed.longest_streak>>,
        total |-> <<single.total_completions, listed.total_completions>>]

\* C10: for a daily habit, a further completion on a calendar day that
\* already has one leaves current_streak and longest_streak unchanged and
\* raises total_completions by 1, in both endpoints: the records with and
\* without such a row r differ in the count only.
C10_SameDayDuplicateKeepsStreaks ==
    \A id \in DOMAIN habits :
       habits[id].frequency = "daily" =>
          \A r \in CompletionsOf(id) :
             (\E c \in CompletionsOf(id) \ {r} :
                 LocalDay(c.completed_date) = LocalDay(r.completed_date)) =>
                LET with == StreaksOf(habits[id], CompletionsOf(id))
                    without == StreaksOf(habits[id], CompletionsOf(id) \ {r})
                IN /\ with.single = without.single
                   /\ with.listed = without.listed
                   /\ with.total = <<without.total[1] + 1, without.total[2] + 1>>

\* The daily habits without a completion today.
NotCompletedToday(id) ==
    /\ habits[id].frequency = "daily"
    /\ Today \notin DaysOf(CompletionsOf(id))

\* The current streak the grace rule gives a habit with the completed days
\* D and none of them today: the run ending yesterday, or 0 when the most
\* recent day is older.
GraceStreakHolds(D, streak) ==
    /\ (Today - 1 \in D) => streak = RunEndingAt(D, Today - 1)
    /\ (D # {} /\ SetMax(D) < Today - 1) => streak = 0

\* C11: for a daily habit with no completion today, current_streak of
\* getHabitProgress and of getHabitsWithProgress is the length of the run of
\* consecutive completed days ending yesterday when yesterday has a
\* completion, and 0 when the most recent completion is older than
\* yesterday.
C11_DailyGraceStreak ==
    /\ (IsProgress /\ NotCompletedToday(response.input.id)) =>
          GraceStreakHolds(DaysOf(CompletionsOf(response.input.id)),
                           response.value.current_streak)
    /\ IsList =>
          \A p \in ListProgress :
             NotCompletedToday(p.habit_id) =>
                GraceStreakHolds(DaysOf(CompletionsOf(p.habit_id)), p.current_streak)

\* C12: total_completions of getHabitProgress and of getHabitsWithProgress
\* is the number of completion records stored for the habit, same-day
\* duplicates and records on other weekdays included.
C12_TotalCountsEveryRecord ==
    /\ IsProgress =>
          response.value.total_completions
             = Cardinality(CompletionsOf(response.input.id))
    /\ IsList =>
          \A p \in ListProgress :
             p.total_completions = Cardinality(CompletionsOf(p.habit_id))

\* A getHabitProgress response for a Monday habit with three records, two
\* of them on one calendar day and one on another weekday.
C12_Witness ==
    /\ IsProgress
    /\ habits[response.input.id].frequency = "monday"
    /\ response.value.total_completions = 3
    /\ \E c, e \in CompletionsOf(response.input.id) :
          c # e /\ LocalDay(c.completed_date) = LocalDay(e.completed_date)
    /\ \E c \in CompletionsOf(response.input.id) :
          getDay(c.completed_date) # dayMap["monday"]

\* The greatest completed_date among the rows, absent when there is none.
GreatestDate(rows) ==
    IF rows = {} THEN Null ELSE Some(SetMax({c.completed_date : c \in rows}))

\* C13: last_completed_date of getHabitProgress and of
\* getHabitsWithProgress is the greatest completed_date among the habit's
\* completion records, and null exactly when the habit has none.
C13_LastCompletedIsGreatestDate ==
    /\ IsProgress =>
          response.value.last_completed_date
             = GreatestDate(CompletionsOf(response.input.id))
    /\ IsList =>
          \A p \in ListProgress :
             p.last_completed_date = GreatestDate(CompletionsOf(p.habit_id))

\* A getHabitProgress response for a habit whose latest-dated record was
\* stored before a record with an earlier date.
C13_Witness ==
    /\ IsProgress
    /\ \E c, e \in CompletionsOf(response.input.id) :
          /\ c.id < e.id
          /\ c.completed_date > e.completed_date
          /\ response.value.last_completed_date = Some(c.completed_date)

\* The last operation calculated the completion rates of a habit.
IsRate == response.op = "completionRate"

\* Whole days from the creation of habit id to now.
DaysSinceCreation(id) == Floor(now - habits[id].created_at, HoursPerDay)

\* The daily habits created at or before now.
DailyCreatedByNow(id) ==
    /\ habits[id].frequency = "daily"
    /\ habits[id].created_at <= now

\* The rate r is exactly min(n / e, 1).
IsCappedQuotient(r, n, e) ==
    /\ r.den > 0
    /\ IF n >= e THEN r.num = r.den ELSE r.num * e = n * r.den

\* The rate r is min(n / e, 1) rounded to the nearest thousandth.
IsRoundedCappedQuotient(r, n, e) ==
    /\ r.den = 1000
    /\ IF n >= e THEN r.num = 1000
       ELSE /\ 2 * (1000 * n - r.num * e) <= e
            /\ 2 * (r.num * e - 1000 * n) <= e

IsOne(r) == r.num = r.den

\* C14: for a daily habit with n >= 1 records created d >= 0 whole days
\* before now, completion_rate is min(n / (d + 1), 1) in getHabitProgress
\* and that value rounded to 3 decimals in getHabitsWithProgress; in
\* getHabitProgress it is 1 exactly when n >= d + 1, and in
\* getHabitsWithProgress it is 1 whenever n >= d + 1.
C14_DailyRate ==
    (IsRate /\ DailyCreatedByNow(response.input.id)) =>
       LET n == response.input.n
           d == DaysSinceCreation(response.input.id)
       IN /\ IsCappedQuotient(response.single, n, d + 1)
          /\ IsRoundedCappedQuotient(response.listed, n, d + 1)
          /\ IsOne(response.single) <=> n >= d + 1
          /\ n >= d + 1 => IsOne(response.listed)

\* The rates of a daily habit with one record fewer than days since its
\* creation: below 1 in getHabitProgress, rounded to 1 in
\* getHabitsWithProgress.
C14_Witness ==
    /\ IsRate
    /\ DailyCreatedByNow(response.input.id)
    /\ response.input.n = DaysSinceCreation(response.input.id)
    /\ ~IsOne(response.single)
    /\ IsOne(response.listed)

\* C14 as stated: in both endpoints completion_rate is 1 exactly when
\* n >= d + 1.
C14_DailyRateOneIffFull ==
    (IsRate /\ DailyCreatedByNow(response.input.id)) =>
       LET n == response.input.n
           d == DaysSinceCreation(response.input.id)
       IN /\ IsCappedQuotient(response.single, n, d + 1)
          /\ IsRoundedCappedQuotient(response.listed, n, d + 1)
          /\ IsOne(response.single) <=> n >= d + 1
          /\ IsOne(response.listed) <=> n >= d + 1

\* No expected period of habit id has elapsed from its creation to now: for
\* a weekday habit the target weekday has not occurred on any of the days
\* counted from created_at up to now, for the other frequencies the habit
\* was created after now.
NoPeriodElapsed(id) ==
    LET habit == habits[id]
    IN IF habit.frequency \in DOMAIN dayMap
       THEN \A k \in 0..DaysSinceCreation(id) :
               getDay(addDays(habit.created_at, k)) # dayMap[habit.frequency]
       ELSE habit.created_at > now

\* C15: the divisor of completion_rate is never below 1 in either endpoint:
\* a habit with at least one completion record for which no expected period
\* has elapsed since its creation has completion_rate 1 in getHabitProgress
\* and in getHabitsWithProgress.
C15_ExpectedFlooredAtOne ==
    /\ (/\ IsProgress
        /\ response.value.total_completions >= 1
        /\ NoPeriodElapsed(response.input.id)) =>
          IsOne(response.value.completion_rate)
    /\ IsList =>
          \A p \in ListProgress :
             (p.total_completions >= 1 /\ NoPeriodElapsed(p.habit_id)) =>
                IsOne(p.completion_rate)

\* The fields of a progress record that C16 compares.
ComparedFields(p) ==
    <<p.current_streak, p.longest_streak, p.total_completions, p.last_completed_date>>

\* C16: for the same stored habit, the same completion records and the same
\* now, the progress record of the habit's getHabitsWithProgress entry and
\* the record getHabitProgress returns agree in current_streak,
\* longest_streak, total_completions and last_completed_date, for every
\* frequency.
C16_EndpointsAgree ==
    \A id \in DOMAIN habits :
       LET cs == selectCompletionsDesc(id)
       IN ComparedFields(habitWithProgress(habits[id], cs).progress)
             = ComparedFields(progressOf(habits[id], cs))

\* The calendar week (Sunday to Saturday) of a date, numbered from the week
\* of the epoch on without regard to years.
CalendarWeek(t) == Floor(LocalDay(t) + Epoch.weekday, DaysPerWeek)

WeeksOf(rows) == {CalendarWeek(c.completed_date) : c \in rows}

\* The weekly habits with at least one completion.
WeeklyWithCompletion(id) ==
    /\ habits[id].frequency = "weekly"
    /\ CompletionsOf(id) # {}

\* C17: for a weekly habit with at least one completion, current_streak of
\* getHabitProgress is the number of consecutive calendar weeks, counted
\* backwards from the most recent week that contains a completion, that
\* each contain a completion.
C17_WeeklyCurrentStreakFromLatestWeek ==
    (IsProgress /\ WeeklyWithCompletion(response.input.id)) =>
       LET W == WeeksOf(CompletionsOf(response.input.id))
       IN response.value.current_streak = RunEndingAt(W, SetMax(W))

\* C18: for a weekly habit, longest_streak of getHabitProgress is the length
\* of the longest run of consecutive calendar weeks that each contain a
\* completion, weeks of different years being the same or adjacent only if
\* they really are.
C18_WeeklyLongestStreakIsLongestRun ==
    (IsProgress /\ habits[response.input.id].frequency = "weekly") =>
       response.value.longest_streak
          = LongestRun(WeeksOf(CompletionsOf(response.input.id)))

\* The habits whose frequency is a specific weekday.
IsWeekdayHabit(id) == habits[id].frequency \in DOMAIN dayMap

\* The completion rows of habit id dated on its weekday, and the others.
OnTargetDay(id) ==
    {c \in CompletionsOf(id) : getDay(c.completed_date) = dayMap[habits[id].frequency]}
OffTargetDay(id) == CompletionsOf(id) \ OnTargetDay(id)

\* C19: for a habit whose frequency is a specific weekday, a completion
\* record dated on another weekday leaves current_streak and longest_streak
\* of getHabitProgress unchanged and raises total_completions by 1: the
\* record returned differs from the one for the table without such a row r
\* in the count only; with only such records both streaks are 0.
C19_OtherWeekdayKeepsStreaks ==
    (IsProgress /\ IsWeekdayHabit(response.input.id)) =>
       LET id == response.input.id
           with == response.value
       IN /\ \A r \in OffTargetDay(id) :
                LET without ==
                       progressOf(habits[id], orderByDateDesc(CompletionsOf(id) \ {r}))
                IN /\ with.current_streak = without.current_streak
                   /\ with.longest_streak = without.longest_streak
                   /\ with.total_completions = without.total_completions + 1
          /\ OnTargetDay(id) = {} =>
                (with.current_streak = 0 /\ with.longest_streak = 0)

\* A getHabitProgress response with a current streak of two weeks for a
\* Monday habit that has three records, one of them not on a Monday.
C19_Witness ==
    /\ IsProgress
    /\ habits[response.input.id].frequency = "monday"
    /\ response.value.current_streak = 2
    /\ response.value.total_completions = 3
    /\ OffTargetDay(response.input.id) # {}

\* The current and longest streak getHabitProgress reports for habit id
\* with the completion rows given.
SingleStreaks(id, rows) == StreaksOf(habits[id], rows).single

\* C20: for weekly and for specific-weekday habits, a further completion
\* record inside a period that already has one (the same calendar week, or
\* the same date of the target weekday) leaves current_streak and
\* longest_streak of getHabitProgress unchanged: the streaks with and
\* without such a row r are equal.
C20_SamePeriodDuplicateKeepsStreaks ==
    \A id \in DOMAIN habits :
       /\ habits[id].frequency = "weekly" =>
             \A r \in CompletionsOf(id) :
                (\E c \in CompletionsOf(id) \ {r} :
                    CalendarWeek(c.completed_date) = CalendarWeek(r.completed_date)) =>
                   SingleStreaks(id, CompletionsOf(id))
                      = SingleStreaks(id, CompletionsOf(id) \ {r})
       /\ IsWeekdayHabit(id) =>
             \A r \in OnTargetDay(id) :
                (\E c \in OnTargetDay(id) \ {r} :
                    LocalDay(c.completed_date) = LocalDay(r.completed_date)) =>
                   SingleStreaks(id, CompletionsOf(id))
                      = SingleStreaks(id, CompletionsOf(id) \ {r})

\* The last operation applied the progress calculation.
IsCalculation == response.op = "calculateProgress"

StreaksAtMostTotal(p) ==
    /\ p.current_streak <= p.total_completions
    /\ p.longest_streak <= p.total_completions

\* C22: for every frequency and every completion multiset, current_streak
\* and longest_streak are at most total_completions, in getHabitProgress and
\* in getHabitsWithProgress.
C22_StreaksAtMostTotal ==
    /\ IsProgress => StreaksAtMostTotal(response.value)
    /\ IsList => \A p \in ListProgress : StreaksAtMostTotal(p)

\* A getHabitProgress response whose current streak reaches the record
\* count, three.
C22_Witness ==
    /\ IsProgress
    /\ response.value.total_completions = 3
    /\ response.value.current_streak = 3

\* C23: updateHabit on an existing habit changes exactly the fields present
\* in the input (an explicit null description is stored as null, an omitted
\* one is kept) and updated_at, and leaves id, created_at, every omitted
\* field, every other habit and every completion record unchanged; with an
\* id that matches no habit it fails with 'Habit with ID <id> not found' and
\* changes nothing.
C23_UpdateChangesGivenFieldsOnly ==
    [][response'.op = "updateHabit" =>
        LET input == response'.input
            id == input.id
        IN /\ completions' = completions
           /\ DOMAIN habits' = DOMAIN habits
           /\ \A h \in DOMAIN habits \ {id} : habits'[h] = habits[h]
           /\ IF id \in DOMAIN habits
              THEN /\ response'.error = Null
                   /\ response'.value = habits'[id]
                   /\ \A f \in UpdateFields :
                         habits'[id][f] = IF f \in DOMAIN input THEN input[f]
                                          ELSE habits[id][f]
                   /\ habits'[id].updated_at = now
                   /\ habits'[id].id = id
                   /\ habits'[id].created_at = habits[id].created_at
              ELSE /\ response'.error = Some(<<"Habit with ID ", id, " not found">>)
                   /\ habits' = habits
    ]_vars

\* An updateHabit that gave only a new name to a habit that has a
\* description, after the clock advanced: the description is kept and
\* updated_at differs from created_at.
C23_Witness ==
    /\ response.op = "updateHabit"
    /\ response.error = Null
    /\ DOMAIN response.input = {"id", "name"}
    /\ response.value.name = "walk"
    /\ response.value.description = Some("every morning")
    /\ response.value.updated_at > response.value.created_at + HoursPerDay

\* The progress calculated from the row of habit h and the completion
\* records of h alone.
OwnProgress(h) ==
    habitWithProgress(habits[h], orderByDateDesc(CompletionsOf(h))).progress

\* C24: getHabitsWithProgress returns exactly one entry per stored habit
\* (the empty list when there is none), and an entry's progress depends only
\* on the habit's own completion records: it is the progress calculated
\* from the habit's row and its own records, whatever records the other
\* habits have.
C24_OneEntryPerHabitOwnRecordsOnly ==
    IsList =>
       /\ Len(response.value) = Cardinality(DOMAIN habits)
       /\ {response.value[k].id : k \in 1..Len(response.value)} = DOMAIN habits
       /\ \A k \in 1..Len(response.value) :
             response.value[k].progress = OwnProgress(response.value[k].id)

\* A getHabitsWithProgress response listing two habits that have one
\* completion record each.
C24_Witness ==
    /\ IsList
    /\ Len(response.value) = 2
    /\ \A p \in ListProgress : p.total_completions = 1

\* C25: when markHabitComplete calls for the same habit and the same
\* calendar day interleave, at most one of them inserts a record: no
\* reachable state has two completion records for one habit on one calendar
\* day.
C25_OneRecordPerHabitAndDay ==
    \A c, e \in completions :
       (c # e /\ c.habit_id = e.habit_id) =>
          LocalDay(c.completed_date) # LocalDay(e.completed_date)

\* C26: in every state reachable by interleaving habit creation, deleteHabit
\* and the steps of markHabitComplete, every completion record's habit_id
\* refers to an existing habit.
C26_CompletionsReferToHabits ==
    \A c \in completions : c.habit_id \in DOMAIN habits

\* A markHabitComplete call that passed its existence check, whose habit
\* was then deleted, and whose insert was rejected.
C26_Witness ==
    /\ response.op = "markHabitComplete"
    /\ response.error = "violates foreign key constraint"
    /\ response.input.habit_id \notin DOMAIN habits

\* C27: for a weekly habit that has a completion in the current week,
\* current_streak of getHabitProgress is at least 1, whatever other
\* completion records the habit has.
C27_WeeklyCurrentWeekCounts ==
    (/\ IsProgress
     /\ habits[response.input.id].frequency = "weekly"
     /\ CalendarWeek(now) \in WeeksOf(CompletionsOf(response.input.id))) =>
       response.value.current_streak >= 1

\* The longest streak getHabitProgress reports for habit id once a further
\* completion record dated date is stored.
LongestStreakWith(id, date) ==
    progressOf(habits[id],
               orderByDateDesc(CompletionsOf(id)
                                  \cup {completionRow(nextCompletionId, id, date)})
              ).longest_streak

\* C28: for a fixed now and any frequency, one more completion record never
\* decreases longest_streak of getHabitProgress: the value returned is at
\* most the value for the same table with any one record added.
C28_LongestStreakMonotone ==
    IsProgress =>
       \A o \in SeedOffsets :
          response.value.longest_streak <= LongestStreakWith(response.input.id, now + o)

\* The daily habits whose completion records are all dated on or before
\* today.
DailyNoneAfterToday(id) ==
    /\ habits[id].frequency = "daily"
    /\ \A d \in DaysOf(CompletionsOf(id)) : d <= Today

\* C29: for a daily habit whose completion records are all dated on or
\* before today, getHabitProgress and getHabitsWithProgress report the same
\* current_streak and the same longest_streak for the same habit, records
\* and now.
C29_DailyEndpointsAgree ==
    \A id \in DOMAIN habits :
       DailyNoneAfterToday(id) =>
          LET streaks == StreaksOf(habits[id], CompletionsOf(id))
          IN streaks.single = streaks.listed

\* C30: in the client, after any sequence of handleMarkComplete calls on a
\* list whose progress records satisfy current_streak <= longest_streak,
\* the client-held progress of every habit still satisfies
\* current_streak <= longest_streak.
C30_ClientCurrentAtMostLongest ==
    \A k \in 1..Len(clientHabits) :
       clientHabits[k].progress.current_streak
          <= clientHabits[k].progress.longest_streak

====
